---- MODULE Spec2Model ----
(***************************************************************************)
(* Model of packages/turf-boolean-within/index.js (booleanWithin).         *)
(*                                                                         *)
(* Coordinates are integers.  Every input coordinate is an even number, so *)
(* that getMidpoint's (a + b) / 2 is an exact integer and can be computed  *)
(* with \div; JavaScript computes the same value exactly for the numbers   *)
(* used here.  Polygons are modelled with their outer ring only            *)
(* (coordinates = << ring >>).                                             *)
(*                                                                         *)
(* A JavaScript result is the record                                       *)
(*   [threw, value, message]                                               *)
(* where value is "true", "false" or "undefined" and message is the text   *)
(* of the Error that was thrown ("" when nothing was thrown).              *)
(***************************************************************************)
EXTENDS Integers, Sequences, FiniteSets, TLC

VARIABLES feature1, feature2, pc, result

vars == << feature1, feature2, pc, result >>

----------------------------------------------------------------------------
(* Bounds of the input space                                               *)

\* the largest number of coordinates of a MultiPoint
MaxPts == 2

\* the largest number of vertices of a LineString
MaxLineLen == 3

\* the largest number of coordinates of the two arguments together, when the
\* arguments differ (polygon rings are not counted)
MaxTotal == 4

\* coordinate values (even, see above)
Grid == {0, 2, 4}

Coord == Grid \X Grid

----------------------------------------------------------------------------
(* JavaScript values                                                       *)

JsBool(b) == IF b THEN "true" ELSE "false"

Return(v) == [threw |-> FALSE, value |-> v, message |-> ""]

Throw(m) == [threw |-> TRUE, value |-> "undefined", message |-> m]

NoResult == [threw |-> FALSE, value |-> "pending", message |-> ""]

Abs(n) == IF n < 0 THEN 0 - n ELSE n

Min(S) == CHOOSE m \in S : \A n \in S : m <= n

Max(S) == CHOOSE m \in S : \A n \in S : m >= n

----------------------------------------------------------------------------
(* Imported collaborators: @turf/invariant, @turf/bbox,                    *)
(* @turf/boolean-point-on-line, @turf/inside                               *)

getType(f) == IF f.type = "Feature" THEN f.geometry.type ELSE f.type

getGeom(f) == IF f.type = "Feature" THEN f.geometry ELSE f

\* all coordinates of a geometry, as a set
coordAll(g) ==
    CASE g.type = "Point" -> {g.coordinates}
      [] g.type = "Polygon" ->
            {g.coordinates[1][i] : i \in 1..Len(g.coordinates[1])}
      [] OTHER -> {g.coordinates[i] : i \in 1..Len(g.coordinates)}

\* [minX, minY, maxX, maxY]
calcBbox(g) ==
    LET cs == coordAll(g)
    IN  << Min({c[1] : c \in cs}), Min({c[2] : c \in cs}),
           Max({c[1] : c \in cs}), Max({c[2] : c \in cs}) >>

\* excludeBoundary is "none", "start", "end" or "both"
isPointOnLineSegment(s, e, p, excludeBoundary) ==
    LET dxc == p[1] - s[1]
        dyc == p[2] - s[2]
        dxl == e[1] - s[1]
        dyl == e[2] - s[2]
        cross == dxc * dyl - dyc * dxl
        \* lo <(=) v <(=) hi, strict at the excluded ends
        between(a, v, b, exA, exB) ==
            /\ IF exA THEN a < v ELSE a <= v
            /\ IF exB THEN v < b ELSE v <= b
        exS == excludeBoundary \in {"start", "both"}
        exE == excludeBoundary \in {"end", "both"}
    IN  IF cross # 0 THEN FALSE
        ELSE IF Abs(dxl) >= Abs(dyl)
             THEN IF dxl > 0 THEN between(s[1], p[1], e[1], exS, exE)
                             ELSE between(e[1], p[1], s[1], exE, exS)
             ELSE IF dyl > 0 THEN between(s[2], p[2], e[2], exS, exE)
                             ELSE between(e[2], p[2], s[2], exE, exS)

\* pt is a coordinate, line a LineString geometry
isPointOnLine(pt, line, ignoreEndVertices) ==
    LET lc == line.coordinates
        n == Len(lc)
        ignoreBoundary(i) ==
            IF ~ignoreEndVertices THEN "none"
            ELSE IF i = 1 /\ i + 1 = n THEN "both"
            ELSE IF i = n - 1 THEN "end"
            ELSE IF i = 1 THEN "start"
            ELSE "none"
    IN  \E i \in 1..(n - 1) :
            isPointOnLineSegment(lc[i], lc[i + 1], pt, ignoreBoundary(i))

\* the ring without its closing coordinate
openRing(ring) ==
    IF Len(ring) > 1 /\ ring[1] = ring[Len(ring)]
    THEN SubSeq(ring, 1, Len(ring) - 1)
    ELSE ring

inRing(pt, ringIn, ignoreBoundary) ==
    LET ring == openRing(ringIn)
        n == Len(ring)
        prev(i) == IF i = 1 THEN n ELSE i - 1
        onBoundary(i) ==
            LET xi == ring[i][1]
                yi == ring[i][2]
                xj == ring[prev(i)][1]
                yj == ring[prev(i)][2]
            IN  /\ pt[2] * (xi - xj) + yi * (xj - pt[1]) + yj * (pt[1] - xi) = 0
                /\ (xi - pt[1]) * (xj - pt[1]) <= 0
                /\ (yi - pt[2]) * (yj - pt[2]) <= 0
        intersect(i) ==
            LET xi == ring[i][1]
                yi == ring[i][2]
                xj == ring[prev(i)][1]
                yj == ring[prev(i)][2]
                d == yj - yi
            IN  /\ (yi > pt[2]) # (yj > pt[2])
                \* pt.x < (xj - xi) * (pt.y - yi) / (yj - yi) + xi
                /\ IF d > 0
                   THEN (pt[1] - xi) * d < (xj - xi) * (pt[2] - yi)
                   ELSE (pt[1] - xi) * d > (xj - xi) * (pt[2] - yi)
    IN  IF \E i \in 1..n : onBoundary(i)
        THEN ~ignoreBoundary
        ELSE Cardinality({i \in 1..n : intersect(i)}) % 2 = 1

\* pt is a coordinate, polygon a Polygon geometry (outer ring only)
inside(pt, polygon, ignoreBoundary) ==
    inRing(pt, polygon.coordinates[1], ignoreBoundary)

----------------------------------------------------------------------------
(* Local primitives                                                        *)

\* the first comparison turned around
doBBoxOverlap_Reversed(bbox1, bbox2) ==
    IF bbox1[1] < bbox2[1] THEN FALSE
    ELSE IF bbox1[3] < bbox2[3] THEN FALSE
    ELSE IF bbox1[2] > bbox2[2] THEN FALSE
    ELSE IF bbox1[4] < bbox2[4] THEN FALSE
    ELSE TRUE

doBBoxOverlap(bbox1, bbox2) ==
    IF bbox1[1] > bbox2[1] THEN FALSE
    ELSE IF bbox1[3] < bbox2[3] THEN FALSE
    ELSE IF bbox1[2] > bbox2[2] THEN FALSE
    ELSE IF bbox1[4] < bbox2[4] THEN FALSE
    ELSE TRUE

\* only x is compared
compareCoords_XOnly(pair1, pair2) == pair1[1] = pair2[1]

compareCoords(pair1, pair2) == pair1[1] = pair2[1] /\ pair1[2] = pair2[2]

\* both sums are even for the inputs of this model, so \div is exact
getMidpoint(pair1, pair2) ==
    << (pair1[1] + pair2[1]) \div 2, (pair1[2] + pair2[2]) \div 2 >>

----------------------------------------------------------------------------
(* Containment predicates.  A loop of the source is a recursive operator   *)
(* over the (1-based) loop index and the loop's local variables.           *)

RECURSIVE isPointInMultiPointLoop(_, _, _)
isPointInMultiPointLoop(point, multiPoint, i) ==
    IF i > Len(multiPoint.coordinates) THEN FALSE
    ELSE IF compareCoords(multiPoint.coordinates[i], point.coordinates)
         THEN TRUE
         ELSE isPointInMultiPointLoop(point, multiPoint, i + 1)

isPointInMultiPoint(point, multiPoint) ==
    isPointInMultiPointLoop(point, multiPoint, 1)

RECURSIVE anyMatchLoop(_, _, _, _)
\* the inner loop of isMultiPointInMultiPoint; it has no break
anyMatchLoop(coord, multiPoint2, i2, anyMatch) ==
    IF i2 > Len(multiPoint2.coordinates) THEN anyMatch
    ELSE anyMatchLoop(coord, multiPoint2, i2 + 1,
             IF compareCoords(coord, multiPoint2.coordinates[i2])
             THEN TRUE ELSE anyMatch)

RECURSIVE isMultiPointInMultiPointLoop(_, _, _)
isMultiPointInMultiPointLoop(multiPoint1, multiPoint2, i) ==
    IF i > Len(multiPoint1.coordinates) THEN TRUE
    ELSE IF ~anyMatchLoop(multiPoint1.coordinates[i], multiPoint2, 1, FALSE)
         THEN FALSE
         ELSE isMultiPointInMultiPointLoop(multiPoint1, multiPoint2, i + 1)

\* anyMatch declared outside the outer loop: it is never reset
isMultiPointInMultiPoint_NoReset(multiPoint1, multiPoint2) ==
    \/ Len(multiPoint1.coordinates) = 0
    \/ anyMatchLoop(multiPoint1.coordinates[1], multiPoint2, 1, FALSE)

isMultiPointInMultiPoint(multiPoint1, multiPoint2) ==
    isMultiPointInMultiPointLoop(multiPoint1, multiPoint2, 1)

RECURSIVE isMultiPointOnLineLoop(_, _, _, _)
isMultiPointOnLineLoop(multiPoint, lineString, i, foundInsidePoint) ==
    IF i > Len(multiPoint.coordinates) THEN foundInsidePoint
    ELSE IF ~isPointOnLine(multiPoint.coordinates[i], lineString, FALSE)
         THEN FALSE
         ELSE isMultiPointOnLineLoop(multiPoint, lineString, i + 1,
                  IF ~foundInsidePoint
                  THEN isPointOnLine(multiPoint.coordinates[i], lineString, TRUE)
                  ELSE foundInsidePoint)

\* without the test that every point is on the line
isMultiPointOnLine_NoFailFast(multiPoint, lineString) ==
    \E i \in 1..Len(multiPoint.coordinates) :
        isPointOnLine(multiPoint.coordinates[i], lineString, TRUE)

isMultiPointOnLine(multiPoint, lineString) ==
    isMultiPointOnLineLoop(multiPoint, lineString, 1, FALSE)

RECURSIVE isMultiPointInPolyLoop(_, _, _, _)
\* Every iteration reads multiPoint.coordinates[1] (the second coordinate,
\* index 2 here) and oneInside is never assigned, so the strict test is made
\* on every iteration that passes the first test.  The value of a completed
\* loop is `output && isInside` with output = true.
isMultiPointInPolyLoop(multiPoint, polygon, i, isInside) ==
    IF i > Len(multiPoint.coordinates) THEN isInside
    ELSE IF ~inside(multiPoint.coordinates[2], polygon, FALSE)
         THEN "false"
         ELSE isMultiPointInPolyLoop(multiPoint, polygon, i + 1,
                  JsBool(inside(multiPoint.coordinates[2], polygon, TRUE)))

\* The result is a JavaScript result record: with a single coordinate,
\* coordinates[1] is undefined and inside() throws on it; with none, the loop
\* body never runs and `output && isInside` is `true && undefined`.
isMultiPointInPoly(multiPoint, polygon) ==
    IF Len(multiPoint.coordinates) = 1
    THEN Throw("point is required")
    ELSE Return(isMultiPointInPolyLoop(multiPoint, polygon, 1, "undefined"))

RECURSIVE isLineOnLineLoop(_, _, _)
isLineOnLineLoop(lineString1, lineString2, i) ==
    IF i > Len(lineString1.coordinates) THEN TRUE
    ELSE IF ~isPointOnLine(lineString1.coordinates[i], lineString2, FALSE)
         THEN FALSE
         ELSE isLineOnLineLoop(lineString1, lineString2, i + 1)

\* the end vertices of lineString2 are ignored
isLineOnLine_Strict(lineString1, lineString2) ==
    \A i \in 1..Len(lineString1.coordinates) :
        isPointOnLine(lineString1.coordinates[i], lineString2, TRUE)

isLineOnLine(lineString1, lineString2) ==
    isLineOnLineLoop(lineString1, lineString2, 1)

RECURSIVE isLineInPolyLoop(_, _, _, _)
\* i runs over every vertex but the last one
isLineInPolyLoop(linestring, polygon, i, foundInsidePoint) ==
    IF i > Len(linestring.coordinates) - 1 THEN foundInsidePoint
    ELSE IF ~inside(linestring.coordinates[i], polygon, FALSE)
         THEN FALSE
         ELSE LET found1 == IF ~foundInsidePoint
                            THEN inside(linestring.coordinates[i], polygon, TRUE)
                            ELSE foundInsidePoint
                  midpoint == getMidpoint(linestring.coordinates[i],
                                          linestring.coordinates[i + 1])
                  found2 == IF ~found1
                            THEN inside(midpoint, polygon, TRUE)
                            ELSE found1
              IN  isLineInPolyLoop(linestring, polygon, i + 1, found2)

\* foundInsidePoint starts as true
isLineInPoly_NoWitness(linestring, polygon) ==
    LET polyBbox == calcBbox(polygon)
        lineBbox == calcBbox(linestring)
    IN  IF ~doBBoxOverlap(polyBbox, lineBbox) THEN FALSE
        ELSE isLineInPolyLoop(linestring, polygon, 1, TRUE)

isLineInPoly(linestring, polygon) ==
    LET polyBbox == calcBbox(polygon)
        lineBbox == calcBbox(linestring)
    IN  IF ~doBBoxOverlap(polyBbox, lineBbox) THEN FALSE
        ELSE isLineInPolyLoop(linestring, polygon, 1, FALSE)

RECURSIVE isPolyInPolyLoop(_, _, _)
isPolyInPolyLoop(feature1_, feature2_, i) ==
    IF i > Len(feature1_.coordinates[1]) THEN TRUE
    ELSE IF ~inside(feature1_.coordinates[1][i], feature2_, FALSE)
         THEN FALSE
         ELSE isPolyInPolyLoop(feature1_, feature2_, i + 1)

isPolyInPoly(feature1_, feature2_) ==
    LET poly1Bbox == calcBbox(feature1_)
        poly2Bbox == calcBbox(feature2_)
    IN  IF ~doBBoxOverlap(poly2Bbox, poly1Bbox) THEN FALSE
        ELSE isPolyInPolyLoop(feature1_, feature2_, 1)

----------------------------------------------------------------------------
(* The dispatcher                                                          *)

notSupported(side, type) == side \o " " \o type \o " geometry not supported"

\* case 'Point' of the outer switch
casePoint(type2, geom1, geom2) ==
    CASE type2 = "MultiPoint" ->
            Return(JsBool(isPointInMultiPoint(geom1, geom2)))
      [] type2 = "LineString" ->
            Return(JsBool(isPointOnLine(geom1.coordinates, geom2, TRUE)))
      [] type2 = "Polygon" ->
            Return(JsBool(inside(geom1.coordinates, geom2, TRUE)))
      [] OTHER -> Throw(notSupported("feature2", type2))

\* case 'MultiPoint' of the outer switch
caseMultiPoint(type2, geom1, geom2) ==
    CASE type2 = "MultiPoint" ->
            Return(JsBool(isMultiPointInMultiPoint(geom1, geom2)))
      [] type2 = "LineString" ->
            Return(JsBool(isMultiPointOnLine(geom1, geom2)))
      [] type2 = "Polygon" -> isMultiPointInPoly(geom1, geom2)
      [] OTHER -> Throw(notSupported("feature2", type2))

\* case 'LineString' of the outer switch
caseLineString(type2, geom1, geom2) ==
    CASE type2 = "LineString" -> Return(JsBool(isLineOnLine(geom1, geom2)))
      [] type2 = "Polygon" -> Return(JsBool(isLineInPoly(geom1, geom2)))
      [] OTHER -> Throw(notSupported("feature2", type2))

\* the default case returns false instead of throwing
casePolygon_SilentFalse(type2, geom1, geom2) ==
    CASE type2 = "Polygon" -> Return(JsBool(isPolyInPoly(geom1, geom2)))
      [] OTHER -> Return("false")

\* case 'Polygon' of the outer switch
casePolygon(type2, geom1, geom2) ==
    CASE type2 = "Polygon" -> Return(JsBool(isPolyInPoly(geom1, geom2)))
      [] OTHER -> Throw(notSupported("feature2", type2))

booleanWithin(f1, f2) ==
    LET type1 == getType(f1)
        type2 == getType(f2)
        geom1 == getGeom(f1)
        geom2 == getGeom(f2)
    IN  CASE type1 = "Point" -> casePoint(type2, geom1, geom2)
          [] type1 = "MultiPoint" -> caseMultiPoint(type2, geom1, geom2)
          [] type1 = "LineString" -> caseLineString(type2, geom1, geom2)
          [] type1 = "Polygon" -> casePolygon(type2, geom1, geom2)
          [] OTHER -> Throw(notSupported("feature1", type1))

----------------------------------------------------------------------------
(* Inputs                                                                  *)

Types == {"Point", "MultiPoint", "LineString", "Polygon",
          "MultiLineString", "MultiPolygon"}

\* a closed rectangular ring
Rect(x0, y0, x1, y1) ==
    << <<x0, y0>>, <<x0, y1>>, <<x1, y1>>, <<x1, y0>>, <<x0, y0>> >>

Triangle == << <<0, 0>>, <<4, 0>>, <<0, 4>>, <<0, 0>> >>

LShape == << <<0, 0>>, <<4, 0>>, <<4, 2>>, <<2, 2>>, <<2, 4>>, <<0, 4>>, <<0, 0>> >>

Diamond == << <<2, 0>>, <<4, 2>>, <<2, 4>>, <<0, 2>>, <<2, 0>> >>

InnerSquare == Rect(1, 1, 3, 3)

\* rectangles of non-zero area, in both orientations and from every corner
Rings ==
    UNION {{Rect(c[1], c[2], d[1], d[2]) :
               d \in {e \in Coord : e[1] # c[1] /\ e[2] # c[2]}} : c \in Coord}
        \cup {Triangle, LShape, Diamond, InnerSquare}

\* the numbers of coordinates of the inputs of type t (polygon rings and the
\* unsupported types are not counted)
Sizes(t) ==
    CASE t = "Point" -> {1}
      [] t = "MultiPoint" -> 0..MaxPts
      [] t = "LineString" -> 2..MaxLineLen
      [] OTHER -> {0}

\* the inputs of type t with n coordinates
Geometries(t, n) ==
    CASE t = "Point" -> {[type |-> t, coordinates |-> c] : c \in Coord}
      [] t \in {"MultiPoint", "LineString"} ->
            {[type |-> t, coordinates |-> cs] : cs \in [1..n -> Coord]}
      [] t = "Polygon" -> {[type |-> t, coordinates |-> << r >>] : r \in Rings}
      [] t = "MultiLineString" ->
            {[type |-> t, coordinates |-> << << <<0, 0>>, <<2, 2>> >> >>]}
      [] t = "MultiPolygon" ->
            {[type |-> t, coordinates |-> << << Triangle >> >>]}

Feature(g) == [type |-> "Feature", geometry |-> g]

\* a Point, MultiLineString or MultiPolygon is passed bare or as a Feature
Wrappings(g) ==
    IF g.type \in {"Point", "MultiLineString", "MultiPolygon"}
    THEN {"geometry", "feature"}
    ELSE {"geometry"}

Wrap(g, w) == IF w = "feature" THEN Feature(g) ELSE g

----------------------------------------------------------------------------
(* The state machine: a call of booleanWithin on a pair of inputs          *)

\* The two arguments have at most MaxTotal coordinates together, or are the
\* same geometry.
Init ==
    /\ \E t1 \in Types, t2 \in Types :
         \E n1 \in Sizes(t1), n2 \in Sizes(t2) :
            /\ n1 + n2 <= MaxTotal \/ (t1 = t2 /\ n1 = n2)
            /\ \E g1 \in Geometries(t1, n1) :
                 \E g2 \in IF n1 + n2 <= MaxTotal
                           THEN Geometries(t2, n2) ELSE {g1} :
                    \E w1 \in Wrappings(g1), w2 \in Wrappings(g2) :
                       /\ feature1 = Wrap(g1, w1)
                       /\ feature2 = Wrap(g2, w2)
    /\ pc = "call"
    /\ result = NoResult

Call ==
    /\ pc = "call"
    /\ result' = booleanWithin(feature1, feature2)
    /\ pc' = "done"
    /\ UNCHANGED << feature1, feature2 >>

Next == Call

Spec == Init /\ [][Next]_vars

----------------------------------------------------------------------------
(* Properties                                                              *)

Done == pc = "done"

T1 == getType(feature1)

T2 == getType(feature2)

\* the coordinates of the two arguments
A == getGeom(feature1).coordinates

B == getGeom(feature2).coordinates

G1 == getGeom(feature1)

G2 == getGeom(feature2)

\* the call was made on a pair of the given types
Called(t1, t2) == Done /\ T1 = t1 /\ T2 = t2

Supported ==
    { <<"Point", "MultiPoint">>, <<"Point", "LineString">>,
      <<"Point", "Polygon">>, <<"MultiPoint", "MultiPoint">>,
      <<"MultiPoint", "LineString">>, <<"MultiPoint", "Polygon">>,
      <<"LineString", "LineString">>, <<"LineString", "Polygon">>,
      <<"Polygon", "Polygon">> }

FirstTypes == {"Point", "MultiPoint", "LineString", "Polygon"}

UnsupportedMessages ==
    { side \o " " \o t \o " geometry not supported" :
        side \in {"feature1", "feature2"}, t \in Types }

\* bbox `outer` contains bbox `inner`
BBoxContains(outer, inner) ==
    /\ outer[1] <= inner[1]
    /\ outer[2] <= inner[2]
    /\ outer[3] >= inner[3]
    /\ outer[4] >= inner[4]

\* C1: the call raises the unsupported-geometry error exactly for the pairs
\* of types outside the nine supported ones; for such a pair nothing is
\* returned, and the message names the first argument and its type when the
\* first type is unknown, otherwise the second argument and its type.
C1_UnsupportedPairRaises ==
    Done =>
      /\ (result.threw /\ result.message \in UnsupportedMessages)
            <=> (<<T1, T2>> \notin Supported)
      /\ (<<T1, T2>> \notin Supported) =>
            /\ result.threw
            /\ result.value # "false"
            /\ result.message =
                  IF T1 \notin FirstTypes
                  THEN "feature1 " \o T1 \o " geometry not supported"
                  ELSE "feature2 " \o T2 \o " geometry not supported"

\* an unsupported pair with a known first type was called and raised
C1_Witness ==
    /\ Called("LineString", "Point")
    /\ result.threw
    /\ result.message = "feature2 Point geometry not supported"

\* C2: within(MultiPoint, Polygon) is true iff every point is inside or on
\* the boundary of the polygon and at least one point is strictly interior.
C2_MultiPointInPoly ==
    Called("MultiPoint", "Polygon") =>
      /\ ~result.threw
      /\ (result.value = "true") <=>
            /\ \A i \in 1..Len(A) : inside(A[i], G2, FALSE)
            /\ \E i \in 1..Len(A) : inside(A[i], G2, TRUE)

\* C3: within(LineString, Polygon) is true only if every vertex of the line
\* is inside or on the boundary of the polygon and some vertex or segment
\* midpoint is strictly interior.
C3_LineInPolyOnlyIf ==
    (Called("LineString", "Polygon") /\ result.value = "true") =>
      /\ \A i \in 1..Len(A) : inside(A[i], G2, FALSE)
      /\ \/ \E i \in 1..Len(A) : inside(A[i], G2, TRUE)
         \/ \E i \in 1..(Len(A) - 1) :
               inside(getMidpoint(A[i], A[i + 1]), G2, TRUE)

\* all vertices of the line are on the polygon's boundary and no vertex and
\* no segment midpoint is strictly interior
BoundaryOnly ==
    /\ \A i \in 1..Len(A) :
          inside(A[i], G2, FALSE) /\ ~inside(A[i], G2, TRUE)
    /\ \A i \in 1..(Len(A) - 1) :
          ~inside(getMidpoint(A[i], A[i + 1]), G2, TRUE)

\* C4: a LineString that only touches the polygon's boundary is not within it.
C4_BoundaryOnlyRejected ==
    (Called("LineString", "Polygon") /\ BoundaryOnly) =>
      result = Return("false")

\* a three-vertex line running along the boundary, inside the polygon's
\* bbox, was rejected
C4_Witness ==
    /\ Called("LineString", "Polygon")
    /\ BoundaryOnly
    /\ Len(A) = 3
    /\ A[1] # A[2] /\ A[2] # A[3]
    /\ result = Return("false")

C6_LineWithinItself ==
    (Called("LineString", "LineString") /\ G1 = G2) =>
      result = Return("true")

\* a line of three distinct vertices was tested against itself
C6_Witness ==
    /\ Called("LineString", "LineString")
    /\ G1 = G2
    /\ Len(A) = 3
    /\ A[1] # A[2] /\ A[2] # A[3] /\ A[1] # A[3]
    /\ result = Return("true")

\* C7: within(MultiPoint, LineString) is true iff every point is on the line
\* and at least one is strictly between the line's end vertices.
C7_MultiPointOnLine ==
    Called("MultiPoint", "LineString") =>
      result = Return(JsBool(
                  /\ \A i \in 1..Len(A) : isPointOnLine(A[i], G2, FALSE)
                  /\ \E i \in 1..Len(A) : isPointOnLine(A[i], G2, TRUE)))

\* the first point is strictly on the line, the second is off the line, and
\* the answer is false
C7_Witness ==
    /\ Called("MultiPoint", "LineString")
    /\ Len(A) = 2
    /\ isPointOnLine(A[1], G2, TRUE)
    /\ ~isPointOnLine(A[2], G2, FALSE)
    /\ result = Return("false")

\* C8: within(Point, MultiPoint) is true iff the point's coordinate equals,
\* component by component, some coordinate of the MultiPoint.
C8_PointInMultiPoint ==
    Called("Point", "MultiPoint") =>
      result = Return(JsBool(
                  \E i \in 1..Len(B) : B[i][1] = A[1] /\ B[i][2] = A[2]))

\* the point equals the second coordinate only, and shares x with the first
C8_Witness ==
    /\ Called("Point", "MultiPoint")
    /\ Len(B) = 2
    /\ B[1][1] = A[1] /\ B[1][2] # A[2]
    /\ B[2] = A
    /\ result = Return("true")

\* C9: within(MultiPoint, MultiPoint) is true iff every coordinate of the
\* first equals some coordinate of the second.
C9_MultiPointInMultiPoint ==
    Called("MultiPoint", "MultiPoint") =>
      result = Return(JsBool(
                  \A i \in 1..Len(A) : \E j \in 1..Len(B) :
                      A[i][1] = B[j][1] /\ A[i][2] = B[j][2]))

\* two equal points of A match the same, second, point of B
C9_Witness ==
    /\ Called("MultiPoint", "MultiPoint")
    /\ Len(A) = 2 /\ Len(B) = 2
    /\ A[1] = A[2] /\ A[1] = B[2] /\ A[1] # B[1]
    /\ result = Return("true")

\* C10: a Point and the one-element MultiPoint of its coordinate have the
\* same outcome against every MultiPoint, LineString or Polygon.
C10_PointAsSingletonMultiPoint ==
    (Done /\ T1 = "Point" /\ T2 \in {"MultiPoint", "LineString", "Polygon"}) =>
      result = booleanWithin([type |-> "MultiPoint", coordinates |-> << A >>],
                             feature2)

====
